---------------------------- MODULE Spec2Model ----------------------------
(***************************************************************************)
(* A model of result-ts (types.ts and functions.ts, the later revision):   *)
(* the SerializableResult data shape, the producers, the combinators bound *)
(* to a Result by buildFunctions, and the adapter functions tryCatch,      *)
(* tryCatchAsync, flattenErrors and deserializeResult.                     *)
(*                                                                         *)
(* JavaScript values are modelled as strings; `undefined` is the token     *)
(* undefined, which no program string equals.  An absent optional field is *)
(* a field holding undefined.  `new Error().stack` depends on the place of *)
(* the call, so every operation that may capture a stack takes the string  *)
(* the capture would yield (here) from CallSites.                          *)
(*                                                                         *)
(* A caller holds one Result (cur).  The object its combinators are closed *)
(* over lives in heap; the caller may also hold the reference returned by  *)
(* cur.serialize() (held) and write well-typed data or message values      *)
(* through it.                                                             *)
(***************************************************************************)
EXTENDS Naturals, Sequences, FiniteSets, TLC

VARIABLES heap, cur, held, last, chain

vars == <<heap, cur, held, last, chain>>

---------------------------------------------------------------------------
(* Bounds *)

\* distinct places a stack can be captured at
MaxSites == 2
\* length of a run of map calls, or of flatMap/flatMapAsync calls, that is
\* followed from the Result it started on
MaxChain == 2
\* length of the sequence handed to flattenErrors
MaxLen == 4

---------------------------------------------------------------------------
(* Values *)

undefined == "<undefined>"

Data == {"1", "2"}
Messages == {"a", "b"}
SuppliedTraces == {"trace0"}
CallSites == {"Error at site" \o ToString(i) : i \in 1..MaxSites}

ErrorType == {"unexpected", "user-validation", "unauthorized", "not-found"}

Addr == {"obj1", "obj2"}
NoRef == "none"

exists(value) == value # undefined

\* The stacks `new Error().stack` can yield at a call of error().  When a
\* stackTrace is handed in nothing is captured, and one stands for all.
StacksAt(stackTrace) ==
    IF stackTrace = undefined THEN CallSites ELSE {"Error at site1"}

---------------------------------------------------------------------------
(* Producers (types.ts) *)

\* `errorType` defaults to "unexpected" when the argument is left out;
\* `stackTrace ?? new Error().stack` captures the stack at the call (here).
error(message, stackTrace, errorType, here) ==
    [status |-> "error",
     errorType |-> IF errorType = undefined THEN "unexpected" ELSE errorType,
     message |-> message,
     stackTrace |-> IF stackTrace = undefined THEN here ELSE stackTrace]

\* the optional Error argument: NoError when it is left out
NoError == [given |-> FALSE, message |-> undefined, stack |-> undefined]
AnError == [given |-> TRUE, message |-> "boom", stack |-> "trace0"]

\* e?.stack
userValidationError(message, e, here) ==
    error(message, IF e.given THEN e.stack ELSE undefined, "user-validation", here)

unauthorizedError(here) == error("Unauthorized", undefined, "unauthorized", here)

notFoundError(subject, here) == error(subject \o " not found", undefined, "not-found", here)

success(data, message) ==
    [status |-> "success", message |-> message, data |-> data]

\* every combinator of one Result is closed over the same object `result`
buildFunctions(ref) == [result |-> ref]

\* {...obj, ...buildFunctions(obj)}: the fields are spread into the Result
\* (own), the combinators keep the reference to obj itself
NewResult(obj, ref) == [own |-> obj, fns |-> buildFunctions(ref)]

\* `serialize: () => result`: the reference the combinators are closed over
serialize(res) == res.fns.result

---------------------------------------------------------------------------
(* Caller-supplied functions, drawn from small sets *)

\* a transform T -> U is a pipeline of primitive steps; x => g(f(x)) is f then g
Prim(p, x) ==
    CASE p = "id" -> x
      [] p = "next" -> IF x = "1" THEN "2" ELSE "1"

RECURSIVE Apply(_, _)
Apply(fn, x) == IF fn = <<>> THEN x ELSE Apply(Tail(fn), Prim(Head(fn), x))

MapFns == {<<"id">>, <<"next">>}
Compose(f, g) == f \o g

\* T -> Result<U>: the producer `success` itself and a validation that
\* rejects "2"
FlatMapFns == {"success", "validate"}
ApplyFlat(fn, x, here) ==
    CASE fn = "success" -> success(x, undefined)
      [] fn = "validate" -> IF x = "1" THEN success(x, "a")
                            ELSE userValidationError("b", NoError, here)

\* ErrorResult<T> -> Result<T>
CatchFns == {"recover", "rethrow", "relabel"}
ApplyCatch(fn, e, here) ==
    CASE fn = "recover" -> success("1", e.message)
      [] fn = "rethrow" -> e
      [] fn = "relabel" -> error(e.message, e.stackTrace, "not-found", here)

\* fold callbacks: what they return shows which one ran and what it was given
FoldFns == {"observe"}
onSuccess(foldFn, value) == <<"onSuccess", value>>
onError(foldFn, err) == <<"onError", err.message, err.errorType, err.stackTrace>>

\* the combinators take Data; a Result of another T (flattenErrors' T[]) is
\* transformed only where fn is not reached
Typed(result) == IF result.status = "success" THEN result.data \in Data ELSE TRUE

---------------------------------------------------------------------------
(* Combinators (types.ts).  Each yields the Result's data (out), how often *)
(* fn was invoked and what it was given.                                   *)

map(result, fn, here) ==
    IF result.status = "success"
    THEN [out |-> success(Apply(fn, result.data), undefined),
          invoked |-> 1, arg |-> result.data]
    ELSE [out |-> error(result.message, undefined, undefined, here),
          invoked |-> 0, arg |-> undefined]

mapAsync(result, fn, here) ==
    IF result.status = "success"
    THEN [out |-> success(Apply(fn, result.data), undefined),
          invoked |-> 1, arg |-> result.data]
    ELSE [out |-> error(result.message, result.stackTrace, undefined, here),
          invoked |-> 0, arg |-> undefined]

\* flatMap that forwards the error without its kind (as mapAsync does)
flatMap_resetKind(result, fn, here) ==
    IF result.status = "success"
    THEN [out |-> ApplyFlat(fn, result.data, here),
          invoked |-> 1, arg |-> result.data]
    ELSE [out |-> error(result.message, result.stackTrace, undefined, here),
          invoked |-> 0, arg |-> undefined]

flatMap(result, fn, here) ==
    IF result.status = "success"
    THEN [out |-> ApplyFlat(fn, result.data, here),
          invoked |-> 1, arg |-> result.data]
    ELSE [out |-> error(result.message, result.stackTrace, result.errorType, here),
          invoked |-> 0, arg |-> undefined]

\* flatMapAsync that forwards the error without its stackTrace (as map does)
flatMapAsync_dropTrace(result, fn, here) ==
    IF result.status = "success"
    THEN [out |-> ApplyFlat(fn, result.data, here),
          invoked |-> 1, arg |-> result.data]
    ELSE [out |-> error(result.message, undefined, result.errorType, here),
          invoked |-> 0, arg |-> undefined]

flatMapAsync(result, fn, here) ==
    IF result.status = "success"
    THEN [out |-> ApplyFlat(fn, result.data, here),
          invoked |-> 1, arg |-> result.data]
    ELSE [out |-> error(result.message, result.stackTrace, result.errorType, here),
          invoked |-> 0, arg |-> undefined]

\* catchResult that hands fn the error without its kind
catchResult_dropKind(result, fn, here) ==
    IF result.status = "error"
    THEN LET e == error(result.message, result.stackTrace, undefined, here)
         IN [out |-> ApplyCatch(fn, e, here), invoked |-> 1, arg |-> e]
    ELSE [out |-> success(result.data, result.message),
          invoked |-> 0, arg |-> undefined]

catchResult(result, fn, here) ==
    IF result.status = "error"
    THEN LET e == error(result.message, result.stackTrace, result.errorType, here)
         IN [out |-> ApplyCatch(fn, e, here), invoked |-> 1, arg |-> e]
    ELSE [out |-> success(result.data, result.message),
          invoked |-> 0, arg |-> undefined]

\* fold that takes the success branch whatever the status
fold_noErrorBranch(result, foldFn) ==
    [out |-> onSuccess(foldFn, IF result.status = "success" THEN result.data
                               ELSE undefined),
     onSuccess |-> 1, onError |-> 0,
     arg |-> IF result.status = "success" THEN result.data ELSE undefined]

fold(result, foldFn) ==
    IF result.status = "success"
    THEN [out |-> onSuccess(foldFn, result.data),
          onSuccess |-> 1, onError |-> 0, arg |-> result.data]
    ELSE [out |-> onError(foldFn, result),
          onSuccess |-> 0, onError |-> 1, arg |-> result]

---------------------------------------------------------------------------
(* Adapter functions (functions.ts) *)

\* what a caller-supplied () => T does when invoked: return a value, throw
\* an Error (with its message and stack) or throw something that is no Error
Thunks ==
    {[kind |-> "return", value |-> d, message |-> undefined, stack |-> undefined] :
        d \in Data}
    \cup {[kind |-> "throwError", value |-> undefined, message |-> m, stack |-> t] :
        m \in {"boom", undefined}, t \in SuppliedTraces \cup {undefined}}
    \cup {[kind |-> "throwOther", value |-> undefined, message |-> undefined,
           stack |-> undefined]}

tryCatch(fn, errorMessage, here) ==
    LET errMessage == IF errorMessage = undefined THEN "An error occurred"
                      ELSE errorMessage
    IN CASE fn.kind = "return" -> success(fn.value, undefined)
         [] fn.kind = "throwError" -> error(errMessage, fn.stack, undefined, here)
         [] fn.kind = "throwOther" -> error(errMessage, undefined, undefined, here)

tryCatchAsync(fn, errorMessage, here) ==
    LET defaultErrorMessage == "An error occurred"
    IN CASE fn.kind = "return" -> success(fn.value, undefined)
         [] fn.kind = "throwError" ->
              error(IF errorMessage # undefined THEN errorMessage
                    ELSE IF fn.message # undefined THEN fn.message
                    ELSE defaultErrorMessage,
                    fn.stack, undefined, here)
         [] fn.kind = "throwOther" ->
              error(IF errorMessage # undefined THEN errorMessage
                    ELSE defaultErrorMessage,
                    undefined, undefined, here)

\* Array.prototype.join
RECURSIVE join(_, _)
join(seq, sep) ==
    IF seq = <<>> THEN ""
    ELSE IF Len(seq) = 1 THEN Head(seq)
    ELSE Head(seq) \o sep \o join(Tail(seq), sep)

IsFailure(result) == result.status # "success"
DataOrUndefined(result) == IF result.status = "success" THEN result.data ELSE undefined
TraceOrPlaceholder(err) == IF err.stackTrace = undefined THEN "No trace" ELSE err.stackTrace

\* flattenErrors with the separators of the earlier revision (", " and "\n")
flattenErrors_commaSeparator(results, here) ==
    LET errors == SelectSeq(results, IsFailure)
    IN IF Len(errors) > 0
       THEN error(join([i \in 1..Len(errors) |-> errors[i].message], ", "),
                  join([i \in 1..Len(errors) |-> TraceOrPlaceholder(errors[i])], "\n"),
                  undefined, here)
       ELSE success(SelectSeq([i \in 1..Len(results) |-> DataOrUndefined(results[i])],
                              exists),
                    undefined)

flattenErrors(results, here) ==
    LET errors == SelectSeq(results, IsFailure)
    IN IF Len(errors) > 0
       THEN error(join([i \in 1..Len(errors) |-> errors[i].message], "; "),
                  join([i \in 1..Len(errors) |-> TraceOrPlaceholder(errors[i])], ";\n"),
                  undefined, here)
       ELSE success(SelectSeq([i \in 1..Len(results) |-> DataOrUndefined(results[i])],
                              exists),
                    undefined)

\* deserializeResult that leaves the errorType to its default
deserializeResult_dropKind(result, here) ==
    IF result.status = "success" THEN success(result.data, result.message)
    ELSE error(result.message, result.stackTrace, undefined, here)

deserializeResult(result, here) ==
    IF result.status = "success" THEN success(result.data, result.message)
    ELSE error(result.message, result.stackTrace, result.errorType, here)

---------------------------------------------------------------------------
(* The caller's state *)

Free == [status |-> "free"]

\* the data cur's combinators read: the object they are closed over
View == heap[cur.fns.result]

\* transport forms that arrive from elsewhere
WireForms ==
    {success(d, m) : d \in {"1"}, m \in {"a", undefined}}
    \cup {[status |-> "error", errorType |-> k, message |-> "a", stackTrace |-> t] :
            k \in {"unexpected", "not-found"}, t \in SuppliedTraces \cup {undefined}}

\* the results flattenErrors is handed
FlatInputs ==
    {success("1", undefined), success("2", undefined), success(undefined, undefined),
     [status |-> "error", errorType |-> "user-validation", message |-> "a",
      stackTrace |-> "trace0"],
     [status |-> "error", errorType |-> "unexpected", message |-> "b",
      stackTrace |-> undefined]}

RECURSIVE SeqsUpTo(_, _)
SeqsUpTo(S, n) ==
    IF n = 0 THEN {<<>>}
    ELSE LET shorter == SeqsUpTo(S, n - 1)
         IN shorter \cup {Append(q, x) : q \in {t \in shorter : Len(t) = n - 1}, x \in S}

NewChain(obj, from) ==
    [origin |-> obj, from |-> from, family |-> "none", ops |-> <<>>, invoked |-> 0]

Init ==
    /\ heap = [a \in Addr |-> IF a = "obj1" THEN success("1", undefined) ELSE Free]
    /\ cur = NewResult(success("1", undefined), "obj1")
    /\ held = NoRef
    /\ last = [op |-> "success", out |-> success("1", undefined)]
    /\ chain = NewChain(success("1", undefined), "success")

\* The caller binds a newly made Result.  The Result it held before, and any
\* reference serialized from it, are dropped, so that object's cell is free
\* again and the new object is placed in it.
Bind(obj) ==
    /\ heap' = [heap EXCEPT !["obj1"] = obj]
    /\ cur' = NewResult(obj, "obj1")
    /\ held' = NoRef

\* a producer or adapter made obj: a new chain starts from it
Produce(obj, rec) ==
    /\ Bind(obj)
    /\ last' = rec
    /\ chain' = NewChain(obj, rec.op)

Unfollowed ==
    [origin |-> Free, from |-> "none", family |-> "unfollowed", ops |-> <<>>,
     invoked |-> 0]

\* A combinator of cur returned res.out.  A run of calls of one family (map,
\* or flatMap and flatMapAsync) made on a Result right after it was produced
\* is followed up to MaxChain calls; after any other call the Result is no
\* longer related to the one produced.
Step(rec, res, family) ==
    /\ Bind(res.out)
    /\ last' = rec
    /\ chain' =
         IF family # "none" /\ chain.family \in {"none", family}
            /\ Len(chain.ops) < MaxChain
         THEN [chain EXCEPT !.family = family,
                            !.ops = Append(@, [op |-> rec.op, fn |-> rec.fn]),
                            !.invoked = @ + res.invoked]
         ELSE Unfollowed

CallRec(op, fn, res) ==
    [op |-> op, fn |-> fn, recv |-> View, own |-> cur.own, out |-> res.out,
     invoked |-> res.invoked, arg |-> res.arg]

(* Producers *)

Success ==
    /\ \E d \in Data, m \in Messages \cup {undefined} :
          Produce(success(d, m), [op |-> "success", out |-> success(d, m)])

Error ==
    /\ \E m \in Messages, t \in SuppliedTraces \cup {undefined},
          k \in {"not-found", undefined} :
       \E here \in StacksAt(t) :
          Produce(error(m, t, k, here), [op |-> "error", out |-> error(m, t, k, here)])

UserValidationError ==
    /\ \E m \in {"a"}, e \in {NoError, AnError}, here \in CallSites :
          Produce(userValidationError(m, e, here),
                  [op |-> "userValidationError", out |-> userValidationError(m, e, here)])

UnauthorizedError ==
    /\ \E here \in CallSites :
          Produce(unauthorizedError(here),
                  [op |-> "unauthorizedError", out |-> unauthorizedError(here)])

NotFoundError ==
    /\ \E subject \in {"user"}, here \in CallSites :
          Produce(notFoundError(subject, here),
                  [op |-> "notFoundError", out |-> notFoundError(subject, here)])

(* Combinators of cur.  The asynchronous ones return a promise; the action *)
(* is the call together with the caller's await of it: fn is invoked and   *)
(* the receiver read before the function suspends, nothing after.          *)

Map ==
    /\ Typed(View)
    /\ \E fn \in MapFns, here \in CallSites :
          LET res == map(View, fn, here)
          IN Step(CallRec("map", fn, res), res, "map")

MapAsync ==
    /\ Typed(View)
    /\ \E fn \in MapFns, here \in CallSites :
          LET res == mapAsync(View, fn, here)
          IN Step(CallRec("mapAsync", fn, res), res, "none")

FlatMap ==
    /\ Typed(View)
    /\ \E fn \in FlatMapFns, here \in CallSites :
          LET res == flatMap(View, fn, here)
          IN Step(CallRec("flatMap", fn, res), res, "flatMap")

FlatMapAsync ==
    /\ Typed(View)
    /\ \E fn \in FlatMapFns, here \in CallSites :
          LET res == flatMapAsync(View, fn, here)
          IN Step(CallRec("flatMapAsync", fn, res), res, "flatMap")

Catch ==
    /\ Typed(View)
    /\ \E fn \in CatchFns, here \in CallSites :
          LET res == catchResult(View, fn, here)
          IN Step(CallRec("catch", fn, res), res, "none")

Fold ==
    /\ \E foldFn \in FoldFns :
          LET res == fold(View, foldFn)
          IN last' = [op |-> "fold", fn |-> foldFn, recv |-> View, own |-> cur.own,
                      out |-> res.out, onSuccess |-> res.onSuccess,
                      onError |-> res.onError, arg |-> res.arg]
    /\ UNCHANGED <<heap, cur, held, chain>>

Serialize ==
    /\ held' = serialize(cur)
    /\ last' = [op |-> "serialize", recv |-> View, own |-> cur.own,
                out |-> heap[serialize(cur)]]
    /\ UNCHANGED <<heap, cur, chain>>

\* the caller writes a field of the object serialize() returned
Mutate ==
    /\ held # NoRef
    /\ \/ \E v \in Messages :
             /\ v # heap[held].message
             /\ heap' = [heap EXCEPT ![held].message = v]
       \/ \E v \in Data :
             /\ heap[held].status = "success"
             /\ v # heap[held].data
             /\ heap' = [heap EXCEPT ![held].data = v]
    /\ last' = [op |-> "mutate", recv |-> heap[held], out |-> heap'[held]]
    /\ chain' = NewChain(heap'[cur.fns.result], "mutate")
    /\ UNCHANGED <<cur, held>>

\* deserializeResult(r.serialize())
DeserializeSerialized ==
    /\ held # NoRef
    /\ \E here \in CallSites :
          LET out == deserializeResult(heap[held], here)
          IN Produce(out, [op |-> "deserializeResult", recv |-> heap[held],
                           roundTrip |-> TRUE, out |-> out])

\* deserializeResult of a transport form received from elsewhere
DeserializeWire ==
    /\ \E w \in WireForms :
       \E here \in StacksAt(IF w.status = "error" THEN w.stackTrace ELSE "none") :
          LET out == deserializeResult(w, here)
          IN Produce(out, [op |-> "deserializeResult", recv |-> w,
                           roundTrip |-> FALSE, out |-> out])

Next ==
    \/ Success \/ Error \/ UserValidationError \/ UnauthorizedError \/ NotFoundError
    \/ Map \/ MapAsync \/ FlatMap \/ FlatMapAsync \/ Catch \/ Fold
    \/ Serialize \/ Mutate
    \/ DeserializeSerialized \/ DeserializeWire

Spec == Init /\ [][Next]_vars

(* The adapters that wrap a caller's function or aggregate results are  *)
(* pure functions of their arguments: the caller is about to make one    *)
(* call, with arguments drawn from small sets, and the action makes it.  *)

InitAdapters ==
    /\ heap = [a \in Addr |-> IF a = "obj1" THEN success("1", undefined) ELSE Free]
    /\ cur = NewResult(success("1", undefined), "obj1")
    /\ held = NoRef
    /\ chain = NewChain(success("1", undefined), "success")
    /\ \/ \E to \in {"tryCatch", "tryCatchAsync"}, fn \in Thunks,
             errorMessage \in {"a", undefined} :
             last = [op |-> "call", to |-> to, fn |-> fn, errorMessage |-> errorMessage]
       \/ \E results \in SeqsUpTo(FlatInputs, MaxLen) :
             last = [op |-> "call", to |-> "flattenErrors", results |-> results]

TryCatch ==
    /\ last.op = "call" /\ last.to = "tryCatch"
    /\ \E here \in CallSites :
          LET out == tryCatch(last.fn, last.errorMessage, here)
          IN Produce(out, [op |-> "tryCatch", fn |-> last.fn,
                           errorMessage |-> last.errorMessage, out |-> out])

\* the call together with the caller's await of the promise
TryCatchAsync ==
    /\ last.op = "call" /\ last.to = "tryCatchAsync"
    /\ \E here \in CallSites :
          LET out == tryCatchAsync(last.fn, last.errorMessage, here)
          IN Produce(out, [op |-> "tryCatchAsync", fn |-> last.fn,
                           errorMessage |-> last.errorMessage, out |-> out])

FlattenErrors ==
    /\ last.op = "call" /\ last.to = "flattenErrors"
    /\ \E here \in CallSites :
          LET out == flattenErrors(last.results, here)
          IN Produce(out, [op |-> "flattenErrors", results |-> last.results,
                           out |-> out])

NextAdapters == TryCatch \/ TryCatchAsync \/ FlattenErrors

SpecAdapters == InitAdapters /\ [][NextAdapters]_vars

---------------------------------------------------------------------------
(* Properties *)

SameError(a, b) ==
    /\ a.status = "error" /\ b.status = "error"
    /\ a.message = b.message
    /\ a.errorType = b.errorType
    /\ a.stackTrace = b.stackTrace

\* C1: for every error-variant r, r.map(fn) and the resolved value of
\* r.mapAsync(fn) are errors with r's message, errorType and diagnostic, and
\* fn is never invoked.
C1_MapForwardsError ==
    (last.op \in {"map", "mapAsync"}) =>
        (last.recv.status = "error" =>
            (SameError(last.out, last.recv) /\ last.invoked = 0))

\* C2: a run of flatMap/flatMapAsync calls started on an error-variant r never
\* invokes fn and ends in an error with r's message, errorType and diagnostic,
\* also when r was rehydrated from a transport form without a diagnostic.
C2_FlatMapShortCircuit ==
    /\ (last.op \in {"flatMap", "flatMapAsync"}) =>
          (last.recv.status = "error" =>
              (SameError(last.out, last.recv) /\ last.invoked = 0))
    /\ (chain.family = "flatMap") =>
          (chain.origin.status = "error" =>
              (SameError(View, chain.origin) /\ chain.invoked = 0))

\* a run of flatMap and flatMapAsync on an error rehydrated from a transport
\* form that carried no diagnostic (its stack was captured on rehydration)
C2_Witness ==
    /\ chain.family = "flatMap"
    /\ chain.from = "deserializeResult"
    /\ chain.origin.status = "error"
    /\ chain.origin.stackTrace \in CallSites
    /\ Len(chain.ops) >= 2
    /\ chain.ops[1].op = "flatMap"
    /\ chain.ops[2].op = "flatMapAsync"

\* C3: serialize() returns a copy: whatever the caller does with the object
\* it returned, every later r.map, r.flatMap, r.catch, r.fold and
\* r.serialize observes the values r was created with.
C3_SerializeIsACopy ==
    (last.op \in {"map", "mapAsync", "flatMap", "flatMapAsync", "catch", "fold",
                  "serialize"}) =>
        last.recv = last.own

\* C4 as claimed: for every r, r.flatMap(success) serializes to the same
\* status, data, message, errorType and diagnostic as r.
C4_RightIdentity ==
    (last.op = "flatMap") =>
        (last.fn = "success" => last.out = last.recv)

\* C4 as amended: r.flatMap(success) equals r for every error-variant r and
\* every success-variant r without a message; for a success-variant r with a
\* message it has r's status and data and no message.
C4_RightIdentityUpToMessage ==
    (last.op = "flatMap") =>
        (last.fn = "success" =>
            IF last.recv.status = "success"
            THEN last.out = success(last.recv.data, undefined)
            ELSE last.out = last.recv)

C4_Witness ==
    /\ last.op = "flatMap"
    /\ last.fn = "success"
    /\ last.recv.status = "success"
    /\ last.recv.message # undefined
    /\ last.out.message = undefined

\* C5: r.map(f).map(g) and r.map(x => g(f(x))) serialize to the same status,
\* data, message, errorType and diagnostic, for every r.
C5_MapComposition ==
    (chain.family = "map") =>
        (Len(chain.ops) = 2 =>
            \A here \in CallSites :
                map(chain.origin, Compose(chain.ops[1].fn, chain.ops[2].fn), here).out
                    = View)

\* C6: on an error-variant r, r.catch(fn) invokes fn once, with an error
\* carrying r's message, errorType and diagnostic, and returns what fn
\* returns; on a success-variant r it never invokes fn and returns a success
\* with r's data and message.
C6_Catch ==
    (last.op = "catch") =>
        IF last.recv.status = "error"
        THEN /\ last.invoked = 1
             /\ SameError(last.arg, last.recv)
             /\ \E here \in CallSites : last.out = ApplyCatch(last.fn, last.arg, here)
        ELSE /\ last.invoked = 0
             /\ last.out.status = "success"
             /\ last.out.data = last.recv.data
             /\ last.out.message = last.recv.message

C6_Witness ==
    /\ last.op = "catch"
    /\ last.fn = "recover"
    /\ last.recv.status = "error"
    /\ last.recv.errorType = "not-found"
    /\ last.out.status = "success"

\* C7: r.fold invokes exactly one of onSuccess and onError, once: onSuccess
\* with the data of a success, onError with the error, and returns what that
\* callback returned.
C7_FoldExhaustive ==
    (last.op = "fold") =>
        /\ last.onSuccess + last.onError = 1
        /\ IF last.recv.status = "success"
           THEN /\ last.onSuccess = 1
                /\ last.arg = last.recv.data
                /\ last.out = onSuccess(last.fn, last.recv.data)
           ELSE /\ last.onError = 1
                /\ last.arg = last.recv
                /\ last.out = onError(last.fn, last.recv)

C7_Witness ==
    /\ last.op = "fold"
    /\ last.recv.status = "error"
    /\ last.onError = 1
    /\ last.out = <<"onError", last.recv.message, last.recv.errorType,
                    last.recv.stackTrace>>

\* C8: deserializeResult(r.serialize()) has r's status, message,
\* data/errorType and diagnostic, and fold chooses the same callback with the
\* same argument on both.
C8_RoundTrip ==
    (last.op = "deserializeResult") =>
        (last.roundTrip =>
            /\ last.out = last.recv
            /\ \A foldFn \in FoldFns :
                  fold(last.out, foldFn).out = fold(last.recv, foldFn).out)

C8_Witness ==
    /\ last.op = "deserializeResult"
    /\ last.roundTrip
    /\ last.recv.status = "error"
    /\ last.recv.errorType = "not-found"
    /\ last.out.stackTrace = last.recv.stackTrace

\* C9: tryCatch and tryCatchAsync alike give success(v) when fn returns v,
\* and when fn raises anything an error of kind unexpected whose message is
\* the errorMessage handed in, or "An error occurred" when there is none.
C9_TryCatchTotality ==
    (last.op \in {"tryCatch", "tryCatchAsync"}) =>
        IF last.fn.kind = "return"
        THEN /\ last.out.status = "success"
             /\ last.out.data = last.fn.value
        ELSE /\ last.out.status = "error"
             /\ last.out.errorType = "unexpected"
             /\ last.out.message = IF last.errorMessage = undefined
                                   THEN "An error occurred"
                                   ELSE last.errorMessage

\* what C10 expects, read off the inputs from left to right
AnyFailureFrom(results, i) ==
    \E j \in i..Len(results) : results[j].status = "error"

RECURSIVE MessagesFrom(_, _)
MessagesFrom(results, i) ==
    IF i > Len(results) THEN ""
    ELSE IF results[i].status = "error"
    THEN results[i].message
         \o (IF AnyFailureFrom(results, i + 1) THEN "; " ELSE "")
         \o MessagesFrom(results, i + 1)
    ELSE MessagesFrom(results, i + 1)

RECURSIVE DiagnosticsFrom(_, _)
DiagnosticsFrom(results, i) ==
    IF i > Len(results) THEN ""
    ELSE IF results[i].status = "error"
    THEN (IF results[i].stackTrace = undefined THEN "No trace"
          ELSE results[i].stackTrace)
         \o (IF AnyFailureFrom(results, i + 1) THEN ";\n" ELSE "")
         \o DiagnosticsFrom(results, i + 1)
    ELSE DiagnosticsFrom(results, i + 1)

RECURSIVE DefinedDataFrom(_, _)
DefinedDataFrom(results, i) ==
    IF i > Len(results) THEN <<>>
    ELSE IF results[i].data # undefined
    THEN <<results[i].data>> \o DefinedDataFrom(results, i + 1)
    ELSE DefinedDataFrom(results, i + 1)

\* C10: with a failing input flattenErrors gives one error whose message is
\* the failing messages in input order joined by "; " and whose diagnostic is
\* their diagnostics in input order ("No trace" where absent); with none it
\* gives a success whose data is every input's defined data in input order.
C10_FlattenErrors ==
    (last.op = "flattenErrors") =>
        IF AnyFailureFrom(last.results, 1)
        THEN /\ last.out.status = "error"
             /\ last.out.message = MessagesFrom(last.results, 1)
             /\ last.out.stackTrace = DiagnosticsFrom(last.results, 1)
        ELSE /\ last.out.status = "success"
             /\ last.out.data = DefinedDataFrom(last.results, 1)

\* [success(1), error("a"), success(2), error("b")]
C10_Witness ==
    /\ last.op = "flattenErrors"
    /\ Len(last.results) = 4
    /\ last.results[1] = success("1", undefined)
    /\ last.results[2].status = "error" /\ last.results[2].message = "a"
    /\ last.results[3] = success("2", undefined)
    /\ last.results[4].status = "error" /\ last.results[4].message = "b"
    /\ last.out.message = "a; b"
    /\ last.out.stackTrace = "trace0;\nNo trace"

===========================================================================
